---- MODULE Spec2Model ----
(***************************************************************************)
(* Model of libsqlite3-sys/build.rs: the build driver (main and the three  *)
(* build_* modules with their library resolvers), the loadable-extension   *)
(* wrapper generator (generate_wrapper) and the rustfmt hand-off at the    *)
(* end of bindings::write_to_out_dir.                                      *)
(*                                                                         *)
(* Three state machines share the module, one per part of the build       *)
(* script; each specification moves its own variables and leaves the      *)
(* others at their initial value:                                          *)
(*   Spec        the build driver and the resolvers                        *)
(*   SpecGen     the wrapper generator and the generated wrappers          *)
(*   SpecFmt     the rustfmt hand-off (FairSpecFmt: with scheduling        *)
(*               fairness)                                                 *)
(***************************************************************************)
EXTENDS Naturals, Sequences, FiniteSets, TLC

VARIABLES
    \* ---- build driver ----
    cfg,        \* cargo features the build script was compiled with
    env,        \* environment variables read by the build script
    pc,         \* position of main
    out,        \* lines printed to stdout (cargo directives), in order
    header,     \* HeaderLocation returned by find_sqlite
    probes,     \* what each prober was asked and answered
    work,       \* components that have run
    artifact,   \* what was put at out_path
    panicMsg,   \* message of the panic that ended the build, "" if none
    \* ---- wrapper generator ----
    raw,        \* what bindgen's output holds, and the loadable_extension feature
    gpc,        \* position in the assembly of the output string
    fields,     \* api_routines_struct.fields
    gi,         \* index of the next field of the for loop
    output,     \* fragments pushed to the output string, in order
    gpanic,     \* message of the generator's panic, "" if none
    call,       \* last invocation of a generated wrapper
    \* ---- rustfmt hand-off ----
    fpc,        \* position of the calling thread
    file,       \* the file at out_path
    prior,      \* the file at out_path when the build started
    textLen,    \* chunks of generated text still to be written by the writer
    text0,      \* chunks of generated text
    capIn,      \* capacity of the pipe to rustfmt's stdin, in chunks
    capOut,     \* capacity of the pipe from rustfmt's stdout, in chunks
    stdinPipe,  \* chunks in the stdin pipe
    stdinOpen,  \* write end of the stdin pipe still open
    stdoutPipe, \* chunks in the stdout pipe, in order
    writer,     \* state of the writer thread
    child,      \* state of the rustfmt process
    status,     \* exit status obtained by wait()
    fpanic,     \* message of the hand-off's panic, "" if none
    hist        \* history: what happened during the hand-off

drvVars == <<cfg, env, pc, out, header, probes, work, artifact, panicMsg>>
genVars == <<raw, gpc, fields, gi, output, gpanic, call>>
fmtVars == <<fpc, file, prior, textLen, text0, capIn, capOut, stdinPipe,
             stdinOpen, stdoutPipe, writer, child, status, fpanic, hist>>
vars == <<drvVars, genVars, fmtVars>>

(***************************************************************************)
(* Bounds                                                                  *)
(***************************************************************************)
MaxIncludePaths == 2

Range(s) == {s[i] : i \in 1..Len(s)}

SeqsUpTo(S, n) == UNION {[1..k -> S] : k \in 0..n}

(***************************************************************************)
(* Configuration model                                                     *)
(***************************************************************************)
Features == [sqlcipher : BOOLEAN, bundled : BOOLEAN,
             loadable_extension : BOOLEAN, buildtime_bindgen : BOOLEAN,
             windows : BOOLEAN, vcpkg_msvc : BOOLEAN]

\* an environment variable: unset, or set to a value (of valid Unicode: what
\* env::var returns as Ok)
Unset == [set |-> FALSE, val |-> ""]
SetTo(v) == [set |-> TRUE, val |-> v]

Environments == [LIB_DIR : {Unset, SetTo("/opt/lib")},
                 INCLUDE_DIR : {Unset, SetTo("/opt/include")},
                 STATIC : {Unset, SetTo("0"), SetTo("1"), SetTo("")}]

env_prefix(c) == IF c.sqlcipher THEN "SQLCIPHER" ELSE "SQLITE3"

header_file(c) == IF c.loadable_extension THEN "sqlite3ext.h" ELSE "sqlite3.h"

wrapper_file(c) == IF c.loadable_extension THEN "wrapper-ext.h" ELSE "wrapper.h"

link_lib(c) == IF c.sqlcipher THEN "sqlcipher" ELSE "sqlite3"

\* pub enum HeaderLocation
FromEnvironment == [tag |-> "FromEnvironment", path |-> ""]
Wrapper == [tag |-> "Wrapper", path |-> ""]
FromPath(p) == [tag |-> "FromPath", path |-> p]
NoHeader == [tag |-> "None", path |-> ""]

\* a line printed to stdout: by the build script itself or by a prober crate
Directive(by, kind, value) == [by |-> by, kind |-> kind, value |-> value]

IncludeDirs == {"/usr/include", "/opt/include"}

\* answer of a prober: Err, or Ok with the library's include paths
ProbeErr == [asked |-> TRUE, ok |-> FALSE, include_paths |-> <<>>, lib |-> "", scope |-> ""]
ProbeOk(paths) == [asked |-> TRUE, ok |-> TRUE, include_paths |-> paths, lib |-> "", scope |-> ""]
NotAsked == [asked |-> FALSE, ok |-> FALSE, include_paths |-> <<>>, lib |-> "", scope |-> ""]
ProbeAnswers == {ProbeErr} \cup {ProbeOk(p) : p \in SeqsUpTo(IncludeDirs, MaxIncludePaths)}

\* a prober asked for library lib, with PKG_CONFIG_PATH set to scope ("" if not set)
Asked(answer, lib, scope) == [answer EXCEPT !.lib = lib, !.scope = scope]

NoProbes == [scoped |-> NotAsked, vcpkg |-> NotAsked, general |-> NotAsked]

\* the lines a prober crate prints itself when it finds the library
ProberLines(by, answer, lib) ==
    IF answer.ok THEN <<Directive(by, "rustc-link-lib", lib)>> ELSE <<>>

\* mutant: an empty <PREFIX>_STATIC does not ask for static linking
find_link_mode_nonempty(c, e) ==
    IF e.STATIC.set /\ e.STATIC.val # "0" /\ e.STATIC.val # "" THEN "static" ELSE "dylib"

\* build_linked::find_link_mode: Ok(v) if v != "0" => "static", _ => "dylib"
find_link_mode(c, e) ==
    IF e.STATIC.set /\ e.STATIC.val # "0" THEN "static" ELSE "dylib"

\* the println!s every find_sqlite starts with
RerunLines(c) ==
    <<Directive("build.rs", "rerun-if-env-changed", env_prefix(c) \o "_INCLUDE_DIR"),
      Directive("build.rs", "rerun-if-env-changed", env_prefix(c) \o "_LIB_DIR"),
      Directive("build.rs", "rerun-if-env-changed", env_prefix(c) \o "_STATIC")>>
    \o (IF c.windows
        THEN <<Directive("build.rs", "rerun-if-env-changed", "PATH")>>
        ELSE <<>>)
    \o (IF c.vcpkg_msvc
        THEN <<Directive("build.rs", "rerun-if-env-changed", "VCPKGRS_DYNAMIC")>>
        ELSE <<>>)

\* mutant: the header joined to the include path is always sqlite3.h
HeaderFromIncludePaths_plain_header(c, paths) ==
    IF Len(paths) > 0
    THEN FromPath(paths[Len(paths)] \o "/" \o "sqlite3.h")
    ELSE Wrapper

\* lib.include_paths.pop() then header.push(header_file())
HeaderFromIncludePaths(c, paths) ==
    IF Len(paths) > 0
    THEN FromPath(paths[Len(paths)] \o "/" \o header_file(c))
    ELSE Wrapper

(***************************************************************************)
(* The parts of the build at rest                                          *)
(***************************************************************************)
\* a file: absent, or present with its content
NoFile == [exists |-> FALSE, content |-> <<>>]

FileWith(c) == [exists |-> TRUE, content |-> c]

NoChild == [state |-> "none", pending |-> 0, code |-> ""]

NoHist == [both_full |-> FALSE, waited |-> FALSE, joined |-> FALSE]

NoWrapper ==
    [name |-> "", inputs |-> <<>>, output |-> "", field |-> "", args |-> <<>>,
     null_api |-> <<>>, null_field |-> <<>>]

\* a call of a generated wrapper at run time
NoCall == [made |-> FALSE, wrapper |-> NoWrapper, api_null |-> FALSE,
           field_null |-> FALSE, result |-> "", msg |-> <<>>, deref |-> FALSE,
           passed |-> <<>>]

\* the driver and the hand-off while another part of the build is modelled
DrvIdle ==
    /\ cfg = [sqlcipher |-> FALSE, bundled |-> FALSE, loadable_extension |-> TRUE,
              buildtime_bindgen |-> TRUE, windows |-> FALSE, vcpkg_msvc |-> FALSE]
    /\ env = [LIB_DIR |-> Unset, INCLUDE_DIR |-> Unset, STATIC |-> Unset]
    /\ pc = "idle" /\ out = <<>> /\ header = NoHeader /\ probes = NoProbes
    /\ work = {} /\ artifact = "" /\ panicMsg = ""

GenIdle ==
    /\ raw = [loadable_extension |-> FALSE, has_struct |-> FALSE, has_deterministic |-> FALSE]
    /\ gpc = "idle" /\ fields = <<>> /\ gi = 1 /\ output = <<>>
    /\ gpanic = "" /\ call = NoCall

FmtIdle ==
    /\ fpc = "idle" /\ file = NoFile /\ prior = NoFile /\ textLen = 0 /\ text0 = 0
    /\ capIn = 1 /\ capOut = 1 /\ stdinPipe = 0 /\ stdinOpen = FALSE
    /\ stdoutPipe = <<>> /\ writer = "idle" /\ child = NoChild /\ status = ""
    /\ fpanic = "" /\ hist = NoHist

(***************************************************************************)
(* Library resolvers                                                       *)
(***************************************************************************)
\* build_linked::try_vcpkg: both cfg variants
linked_try_vcpkg(c, pv) ==
    IF c.vcpkg_msvc /\ pv.ok /\ Len(pv.include_paths) > 0
    THEN [some |-> TRUE, header |-> HeaderFromIncludePaths(c, pv.include_paths)]
    ELSE [some |-> FALSE, header |-> NoHeader]

VcpkgProbe(c, pv, lib) == IF c.vcpkg_msvc THEN Asked(pv, lib, "") ELSE NotAsked

VcpkgLines(c, pv, lib) == IF c.vcpkg_msvc THEN ProberLines("vcpkg", pv, lib) ELSE <<>>

\* the bare minimum link commands of the LIB_DIR branch
linked_lib_dir_lines(c, e, ps) ==
    IF ~ps.ok
    THEN <<Directive("build.rs", "rustc-link-lib", find_link_mode(c, e) \o "=" \o link_lib(c)),
           Directive("build.rs", "rustc-link-search", e.LIB_DIR.val)>>
    ELSE <<>>

\* mutant: the fallback also prints /usr/lib as a search path
linked_fallback_lines_usr_lib(c, e) ==
    <<Directive("build.rs", "rustc-link-lib", find_link_mode(c, e) \o "=" \o link_lib(c)),
      Directive("build.rs", "rustc-link-search", "/usr/lib")>>

\* the Err(_) arm of the general pkg-config probe
linked_fallback_lines(c, e) ==
    <<Directive("build.rs", "rustc-link-lib", find_link_mode(c, e) \o "=" \o link_lib(c))>>

\* mutant: the header depends on the scoped probe
linked_lib_dir_header_probed(ps) == IF ps.ok THEN FromEnvironment ELSE Wrapper

\* the return of the LIB_DIR branch
linked_lib_dir_header(ps) == FromEnvironment

\* build_linked::find_sqlite; ps, pv, pg: what the scoped pkg-config probe,
\* the vcpkg probe and the general pkg-config probe answer if asked
linked_find_sqlite(c, e, ps, pv, pg) ==
    IF e.LIB_DIR.set
    THEN [header |-> linked_lib_dir_header(ps),
          lines |-> RerunLines(c) \o ProberLines("pkg_config", ps, link_lib(c))
                    \o linked_lib_dir_lines(c, e, ps),
          probes |-> [NoProbes EXCEPT
                        !.scoped = Asked(ps, link_lib(c), e.LIB_DIR.val \o "/pkgconfig")]]
    ELSE IF linked_try_vcpkg(c, pv).some
    THEN [header |-> linked_try_vcpkg(c, pv).header,
          lines |-> RerunLines(c) \o VcpkgLines(c, pv, link_lib(c)),
          probes |-> [NoProbes EXCEPT !.vcpkg = VcpkgProbe(c, pv, link_lib(c))]]
    ELSE [header |-> IF pg.ok THEN HeaderFromIncludePaths(c, pg.include_paths) ELSE Wrapper,
          lines |-> RerunLines(c) \o VcpkgLines(c, pv, link_lib(c))
                    \o ProberLines("pkg_config", pg, link_lib(c))
                    \o (IF pg.ok THEN <<>> ELSE linked_fallback_lines(c, e)),
          probes |-> [NoProbes EXCEPT !.vcpkg = VcpkgProbe(c, pv, link_lib(c)),
                                      !.general = Asked(pg, link_lib(c), "")]]

\* build_loadable_extension::try_vcpkg: both cfg variants (the vcpkg variant
\* calls link_lib(), which that module does not import; the library probed
\* is taken to be the module's "sqlite3")
loadable_try_vcpkg(c, pv) ==
    IF c.vcpkg_msvc /\ pv.ok /\ Len(pv.include_paths) > 0
    THEN [some |-> TRUE, header |-> HeaderFromIncludePaths(c, pv.include_paths)]
    ELSE [some |-> FALSE, header |-> NoHeader]

\* what the LIB_DIR branch of build_loadable_extension::find_sqlite prints
loadable_lib_dir_lines(c, e) == <<>>

\* mutant: the loadable-extension fallback prints the link-lib request
loadable_fallback_lines_linked(c, e) ==
    <<Directive("build.rs", "rustc-link-lib", "dylib=sqlite3")>>

\* what the Err(_) arm of build_loadable_extension::find_sqlite prints
loadable_fallback_lines(c, e) == <<>>

\* build_loadable_extension::find_sqlite; link_lib is the literal "sqlite3"
loadable_find_sqlite(c, e, pv, pg) ==
    IF e.LIB_DIR.set
    THEN [header |-> FromEnvironment,
          lines |-> RerunLines(c) \o loadable_lib_dir_lines(c, e),
          probes |-> NoProbes]
    ELSE IF loadable_try_vcpkg(c, pv).some
    THEN [header |-> loadable_try_vcpkg(c, pv).header,
          lines |-> RerunLines(c) \o VcpkgLines(c, pv, "sqlite3"),
          probes |-> [NoProbes EXCEPT !.vcpkg = VcpkgProbe(c, pv, "sqlite3")]]
    ELSE [header |-> IF pg.ok THEN HeaderFromIncludePaths(c, pg.include_paths) ELSE Wrapper,
          lines |-> RerunLines(c) \o VcpkgLines(c, pv, "sqlite3")
                    \o ProberLines("pkg_config", pg, "sqlite3")
                    \o (IF pg.ok THEN <<>> ELSE loadable_fallback_lines(c, e)),
          probes |-> [NoProbes EXCEPT !.vcpkg = VcpkgProbe(c, pv, "sqlite3"),
                                      !.general = Asked(pg, "sqlite3", "")]]

(***************************************************************************)
(* The rustfmt hand-off at the end of bindings::write_to_out_dir           *)
(*                                                                         *)
(* The generated text and rustfmt's output are counted in chunks; a pipe   *)
(* holds a bounded number of chunks, a write to a full pipe and a read of  *)
(* an empty pipe whose other end is open block.  rustfmt is any process    *)
(* that reads its input chunk by chunk, may write output after any read,   *)
(* does not read while it has output to write, and may exit with any       *)
(* status at any read without consuming the rest of its input; it exits    *)
(* once it has seen the end of its input and written its output.  Writes   *)
(* to the file at out_path are taken to succeed.                           *)
(***************************************************************************)
MaxText == 3
MaxCap == 2
MaxEmit == 1

\* the bindings a previous successful build left at out_path
PreviousBindings == FileWith(<<"previous bindings">>)

\* ExitStatus::code(): Some(0), Some(1), Some(2), Some(3), or None (a signal)
ExitCodes == {"0", "1", "2", "3", "signal"}

\* OpenOptions::new().write(true).truncate(true).create(true).open(out_path)
open_truncate(f) == FileWith(<<>>)

\* mutant: the writer thread is joined before rustfmt's output is read
hand_off_order_join_first == <<"join", "copy", "wait", "match">>

\* the steps of the calling thread after the spawns, in order
hand_off_order == <<"copy", "wait", "join", "match">>

StepAfter(p) ==
    LET i == CHOOSE k \in 1..Len(hand_off_order) : hand_off_order[k] = p
    IN IF i < Len(hand_off_order) THEN hand_off_order[i + 1] ELSE "match"

\* mutant: exit status 3 is not told apart from the other failures
status_message_no_partial(code) ==
    IF code = "0" THEN ""
    ELSE IF code = "2" THEN "rustfmt parsing error"
    ELSE "Internal rustfmt error"

\* match status.code(): the panic message, "" for Some(0)
status_message(code) ==
    IF code = "0" THEN ""
    ELSE IF code = "2" THEN "rustfmt parsing error"
    ELSE IF code = "3" THEN "rustfmt could not format some lines."
    ELSE "Internal rustfmt error"

\* both pipes are full while the writer has text left and rustfmt has output
\* to write: where writing all the text before reading any output would hang
BothFull(inPipe, left, outPipe, pending) ==
    inPipe = capIn /\ left > 0 /\ Len(outPipe) = capOut /\ pending > 0

Note(inPipe, left, outPipe, pending) ==
    [hist EXCEPT !.both_full = hist.both_full \/ BothFull(inPipe, left, outPipe, pending)]

InitFmt ==
    /\ DrvIdle /\ GenIdle
    /\ prior \in {NoFile, PreviousBindings}
    /\ file = prior
    /\ text0 \in 1..MaxText   \* the text holds bindgen's output at least
    /\ textLen = text0
    /\ capIn \in 1..MaxCap
    /\ capOut \in 1..MaxCap
    /\ fpc = "open"
    /\ stdinPipe = 0
    /\ stdinOpen = FALSE
    /\ stdoutPipe = <<>>
    /\ writer = "idle"
    /\ child = NoChild
    /\ status = ""
    /\ fpanic = ""
    /\ hist = NoHist

FmtPanic(msg) == fpc' = "panic" /\ fpanic' = msg

\* the open of out_path
FmtOpen ==
    /\ fpc = "open"
    /\ \E ok \in BOOLEAN :
         IF ok
         THEN file' = open_truncate(file) /\ fpc' = "spawn" /\ fpanic' = ""
         ELSE file' = file /\ FmtPanic("Could not write to out_path")
    /\ UNCHANGED <<prior, textLen, text0, capIn, capOut, stdinPipe, stdinOpen,
                   stdoutPipe, writer, child, status, hist>>

\* which::which, cmd.spawn and thread::spawn
FmtSpawn ==
    /\ fpc = "spawn"
    /\ \E r \in {"", "rustfmt not on PATH", "failed to execute rustfmt"} :
         IF r # ""
         THEN FmtPanic(r) /\ UNCHANGED <<stdinOpen, writer, child>>
         ELSE /\ fpc' = hand_off_order[1]
              /\ fpanic' = ""
              /\ stdinOpen' = TRUE
              /\ writer' = "running"
              /\ \E st \in {"running", "aborting"}, k \in 0..MaxEmit :
                   child' = [state |-> st, pending |-> IF st = "running" THEN k ELSE 0,
                             code |-> ""]
    /\ UNCHANGED <<file, prior, textLen, text0, capIn, capOut, stdinPipe,
                   stdoutPipe, status, hist>>

\* the writer thread: write_all, one chunk; a write to a pipe whose reader
\* has exited fails, write_all returns the error, which is dropped
WriterWrite ==
    /\ writer = "running"
    /\ textLen > 0
    /\ IF child.state = "exited"
       THEN /\ writer' = "done"
            /\ stdinOpen' = FALSE
            /\ UNCHANGED <<stdinPipe, textLen, hist>>
       ELSE /\ stdinPipe < capIn
            /\ stdinPipe' = stdinPipe + 1
            /\ textLen' = textLen - 1
            /\ hist' = Note(stdinPipe + 1, textLen - 1, stdoutPipe, child.pending)
            /\ UNCHANGED <<writer, stdinOpen>>
    /\ UNCHANGED <<fpc, file, prior, text0, capIn, capOut, stdoutPipe, child,
                   status, fpanic>>

\* the writer thread: the closure returns, rustfmt_child_stdin is dropped
WriterFinish ==
    /\ writer = "running"
    /\ textLen = 0
    /\ writer' = "done"
    /\ stdinOpen' = FALSE
    /\ UNCHANGED <<fpc, file, prior, textLen, text0, capIn, capOut, stdinPipe,
                   stdoutPipe, child, status, fpanic, hist>>

\* rustfmt reads a chunk, and decides what it writes next or to give up
ChildRead ==
    /\ child.state = "running"
    /\ child.pending = 0
    /\ stdinPipe > 0
    /\ stdinPipe' = stdinPipe - 1
    /\ \E st \in {"running", "aborting"}, k \in 0..MaxEmit :
         /\ child' = [child EXCEPT !.state = st,
                                   !.pending = IF st = "running" THEN k ELSE 0]
         /\ hist' = Note(stdinPipe - 1, textLen, stdoutPipe,
                         IF st = "running" THEN k ELSE 0)
    /\ UNCHANGED <<fpc, file, prior, textLen, text0, capIn, capOut, stdinOpen,
                   stdoutPipe, writer, status, fpanic>>

\* rustfmt reads the end of its input
ChildEof ==
    /\ child.state = "running"
    /\ child.pending = 0
    /\ stdinPipe = 0
    /\ ~stdinOpen
    /\ \E k \in 0..MaxEmit : child' = [child EXCEPT !.state = "flushing", !.pending = k]
    /\ UNCHANGED <<fpc, file, prior, textLen, text0, capIn, capOut, stdinPipe,
                   stdinOpen, stdoutPipe, writer, status, fpanic, hist>>

\* rustfmt writes a chunk of output
ChildEmit ==
    /\ child.state \in {"running", "flushing"}
    /\ child.pending > 0
    /\ Len(stdoutPipe) < capOut
    /\ stdoutPipe' = Append(stdoutPipe, "formatted")
    /\ child' = [child EXCEPT !.pending = child.pending - 1]
    /\ hist' = Note(stdinPipe, textLen, Append(stdoutPipe, "formatted"), child.pending - 1)
    /\ UNCHANGED <<fpc, file, prior, textLen, text0, capIn, capOut, stdinPipe,
                   stdinOpen, writer, status, fpanic>>

\* rustfmt exits; its ends of the pipes are closed
ChildExit ==
    /\ \/ child.state = "aborting"
       \/ child.state = "flushing" /\ child.pending = 0
    /\ \E c \in ExitCodes : child' = [child EXCEPT !.state = "exited", !.code = c]
    /\ UNCHANGED <<fpc, file, prior, textLen, text0, capIn, capOut, stdinPipe,
                   stdinOpen, stdoutPipe, writer, status, fpanic, hist>>

\* io::copy: a chunk of rustfmt's output goes to the file
FmtCopyChunk ==
    /\ fpc = "copy"
    /\ Len(stdoutPipe) > 0
    /\ file' = FileWith(Append(file.content, Head(stdoutPipe)))
    /\ stdoutPipe' = Tail(stdoutPipe)
    /\ UNCHANGED <<fpc, prior, textLen, text0, capIn, capOut, stdinPipe, stdinOpen,
                   writer, child, status, fpanic, hist>>

\* io::copy: the end of rustfmt's output
FmtCopyEof ==
    /\ fpc = "copy"
    /\ Len(stdoutPipe) = 0
    /\ child.state = "exited"
    /\ fpc' = StepAfter("copy")
    /\ UNCHANGED <<file, prior, textLen, text0, capIn, capOut, stdinPipe, stdinOpen,
                   stdoutPipe, writer, child, status, fpanic, hist>>

\* rustfmt_child.wait()
FmtWait ==
    /\ fpc = "wait"
    /\ child.state = "exited"
    /\ status' = child.code
    /\ hist' = [hist EXCEPT !.waited = TRUE]
    /\ fpc' = StepAfter("wait")
    /\ UNCHANGED <<file, prior, textLen, text0, capIn, capOut, stdinPipe, stdinOpen,
                   stdoutPipe, writer, child, fpanic>>

\* stdin_handle.join()
FmtJoin ==
    /\ fpc = "join"
    /\ writer = "done"
    /\ hist' = [hist EXCEPT !.joined = TRUE]
    /\ fpc' = StepAfter("join")
    /\ UNCHANGED <<file, prior, textLen, text0, capIn, capOut, stdinPipe, stdinOpen,
                   stdoutPipe, writer, child, status, fpanic>>

\* match status.code()
FmtMatch ==
    /\ fpc = "match"
    /\ fpanic' = status_message(status)
    /\ fpc' = IF status_message(status) = "" THEN "done" ELSE "panic"
    /\ UNCHANGED <<file, prior, textLen, text0, capIn, capOut, stdinPipe, stdinOpen,
                   stdoutPipe, writer, child, status, hist>>

MainThread == FmtOpen \/ FmtSpawn \/ FmtCopyChunk \/ FmtCopyEof \/ FmtWait \/ FmtJoin \/ FmtMatch

WriterThread == WriterWrite \/ WriterFinish

Rustfmt == ChildRead \/ ChildEof \/ ChildEmit \/ ChildExit

(***************************************************************************)
(* The wrapper generator (loadable_extension)                              *)
(***************************************************************************)
MaxFields == 2

Digits == <<"1", "2", "3", "4", "5", "6", "7", "8", "9">>

\* an input of a bare fn type: its name ("" for none) and its type
Arg(n, t) == [name |-> n, ty |-> t]

\* the inputs bindgen writes for parameter types ts: arg1, arg2, ...
NamedInputs(ts) == [i \in 1..Len(ts) |-> Arg("arg" \o Digits[i], ts[i])]

\* the type of a field of sqlite3_api_routines: Option<unsafe extern "C" fn(..)>,
\* or a type bare_fn_from_type_path rejects
BareFn(ts, variadic) ==
    [shape |-> "Option<BareFn>", inputs |-> NamedInputs(ts), variadic |-> variadic,
     output |-> "c_int"]
NotBareFn(shape) == [shape |-> shape, inputs |-> <<>>, variadic |-> FALSE, output |-> ""]

\* the field types drawn: no parameter, one, two of different types in both
\* orders; a variadic one has at least one fixed parameter, as C requires
FieldTypes ==
    {BareFn(<<>>, FALSE), BareFn(<<"*mut sqlite3">>, FALSE),
     BareFn(<<"*mut sqlite3", "c_int">>, FALSE),
     BareFn(<<"*mut sqlite3", "c_int">>, TRUE),
     BareFn(<<"c_int", "*mut c_char">>, TRUE),
     BareFn(<<"*const c_char">>, TRUE),
     NotBareFn("Ptr"), NotBareFn("Path"), NotBareFn("Option<Path>")}

\* field identifiers; "" is an anonymous field (field.ident = None)
FieldIdents == {"close_v2", "db_config", "mprintf", ""}

Field(ident, ty) == [ident |-> ident, ty |-> ty]

\* the structs drawn: up to MaxFields fields, the named ones with different names
Structs ==
    {fs \in SeqsUpTo([ident : FieldIdents, ty : FieldTypes], MaxFields) :
        \A i, j \in 1..Len(fs) : (i # j /\ fs[i].ident # "") => fs[i].ident # fs[j].ident}

\* bare_fn_from_type_path: the panic message, "" if the type is Option<fn(..)>
bare_fn_from_type_path(ty) ==
    IF ty.shape = "Ptr" THEN "type was not a type path"
    ELSE IF ty.shape = "Path" THEN "parsed path args were not angle bracketed as expected"
    ELSE IF ty.shape = "Option<Path>" THEN "parsed type was not a bare function as expected"
    ELSE ""

\* mutant: sqlite3_db_config has no specialization
var_arg_types_unspecialized(api_fn_name) == <<"">>

\* var_arg_types: "" is None (the type of the cloned input is kept)
var_arg_types(api_fn_name) ==
    IF api_fn_name = "sqlite3_db_config" THEN <<"", "&mut i32">> ELSE <<"">>

\* the for loop over var_arg_types: each round clones the input that is last
\* at that time, renames it vararg<index+1> and, for Some(t), retypes it
RECURSIVE push_var_args(_, _, _)
push_var_args(inputs, types, index) ==
    IF index >= Len(types) THEN inputs
    ELSE LET last == inputs[Len(inputs)]
             input == Arg("vararg" \o Digits[index + 1],
                          IF types[index + 1] # "" THEN types[index + 1] ELSE last.ty)
         IN push_var_args(Append(inputs, input), types, index + 1)

\* api_fn_inputs of generate_wrapper
api_fn_inputs(ty, api_fn_name) ==
    IF ty.variadic THEN push_var_args(ty.inputs, var_arg_types(api_fn_name), 0)
    ELSE ty.inputs

\* api_fn_input_idents of generate_wrapper
api_fn_input_idents(inputs) == [i \in 1..Len(inputs) |-> inputs[i].name]

\* mutant: the null-pointer message names the field
null_api_message_named(field_name) == <<"sqlite3_api is null for ", field_name>>

\* the message of the wrapper's panic! for a null sqlite3_api
null_api_message(field_name) == <<"sqlite3_api is null">>

\* the message of the wrapper's expect for a null field of *sqlite3_api
null_field_message(field_name) ==
    <<"sqlite3_api contains null pointer for ", field_name, " function">>

\* generate_wrapper: the panic message ("" if none) and the wrapper, as the
\* quote! template builds it
generate_wrapper(field_ident, ty, api_fn_name) ==
    IF bare_fn_from_type_path(ty) # ""
    THEN [panic |-> bare_fn_from_type_path(ty), wrapper |-> NoWrapper]
    ELSE IF \E i \in 1..Len(ty.inputs) : ty.inputs[i].name = ""
    THEN [panic |-> "Input has no name", wrapper |-> NoWrapper]
    ELSE [panic |-> "",
          wrapper |-> [name |-> api_fn_name,
                       inputs |-> api_fn_inputs(ty, api_fn_name),
                       output |-> ty.output,
                       field |-> field_ident,
                       args |-> api_fn_input_idents(api_fn_inputs(ty, api_fn_name)),
                       null_api |-> null_api_message(field_ident),
                       null_field |-> null_field_message(field_ident)]]

\* mutant: the prefix is missing
api_fn_name_unprefixed(ident) == ident

\* "sqlite3_{}" of the field identifier
api_fn_name_of(ident) == "sqlite3_" \o ident

\* a constant definition: pub const <name>: <ty> = <value>;
Const(name, ty, value) == [name |-> name, ty |-> ty, value |-> value]

NoConst == Const("", "", 0)

\* the value of the definition the build script appends; sqlite3.h defines
\* the same value (0x000000800) since 3.8.3
SQLITE_DETERMINISTIC == 2048

\* what bindgen writes for the SQLITE_DETERMINISTIC of a header that has it;
\* SqliteTypeChooser makes it an i32
BindgenDeterministic == Const("SQLITE_DETERMINISTIC", "i32", SQLITE_DETERMINISTIC)

\* a fragment pushed to the output string: det says whether its text holds
\* "pub const SQLITE_DETERMINISTIC", const is the constant it defines
Fragment(kind, det, w) ==
    [kind |-> kind, deterministic |-> det, wrapper |-> w,
     const |-> IF det /\ kind = "raw" THEN BindgenDeterministic ELSE NoConst]

\* output.contains("pub const SQLITE_DETERMINISTIC")
ContainsDeterministic(o) == \E i \in 1..Len(o) : o[i].deterministic

\* "\npub const SQLITE_DETERMINISTIC: i32 = 2048;\n"
deterministic_fragment ==
    [Fragment("SQLITE_DETERMINISTIC", TRUE, NoWrapper)
        EXCEPT !.const = Const("SQLITE_DETERMINISTIC", "i32", SQLITE_DETERMINISTIC)]

\* mutant: the constant is appended whatever the output string holds
deterministic_shim_unconditional(o) == Append(o, deterministic_fragment)

\* if !output.contains(..) { output.push_str(..) }
deterministic_shim(o) ==
    IF ~ContainsDeterministic(o) THEN Append(o, deterministic_fragment) ELSE o

\* the body of a generated wrapper, run with sqlite3_api null or not and the
\* field of the table null or not
invoke(w, api_null, field_null) ==
    IF api_null
    THEN [made |-> TRUE, wrapper |-> w, api_null |-> api_null, field_null |-> field_null,
          result |-> "panic", msg |-> w.null_api, deref |-> FALSE, passed |-> <<>>]
    ELSE IF field_null
    THEN [made |-> TRUE, wrapper |-> w, api_null |-> api_null, field_null |-> field_null,
          result |-> "panic", msg |-> w.null_field, deref |-> TRUE, passed |-> <<>>]
    ELSE [made |-> TRUE, wrapper |-> w, api_null |-> api_null, field_null |-> field_null,
          result |-> "called", msg |-> <<>>, deref |-> TRUE, passed |-> w.args]

InitGen ==
    /\ DrvIdle /\ FmtIdle
    /\ raw \in [loadable_extension : BOOLEAN, has_struct : BOOLEAN,
                has_deterministic : BOOLEAN]
    /\ fields \in IF raw.loadable_extension /\ raw.has_struct THEN Structs ELSE {<<>>}
    /\ gpc = "start"
    /\ gi = 1
    /\ output = <<>>
    /\ gpanic = ""
    /\ call = NoCall

\* bindgen's output, get_struct_by_name and the sqlite3_api declaration
GenStart ==
    /\ gpc = "start"
    /\ IF ~raw.loadable_extension
       THEN /\ output' = <<Fragment("raw", raw.has_deterministic, NoWrapper)>>
            /\ gpc' = "shim"
            /\ gpanic' = ""
       ELSE IF ~raw.has_struct
       THEN /\ output' = <<Fragment("raw", raw.has_deterministic, NoWrapper)>>
            /\ gpc' = "panic"
            /\ gpanic' = "Failed to find struct sqlite3_api_routines in early bindgen output"
       ELSE /\ output' = <<Fragment("raw", raw.has_deterministic, NoWrapper),
                           Fragment("sqlite3_api", FALSE, NoWrapper)>>
            /\ gpc' = "loop"
            /\ gpanic' = ""
    /\ UNCHANGED <<raw, fields, gi, call>>

\* one round of: for field in &api_routines_struct.fields
GenField ==
    /\ gpc = "loop"
    /\ gi <= Len(fields)
    /\ LET field == fields[gi]
           r == generate_wrapper(field.ident, field.ty, api_fn_name_of(field.ident))
       IN IF field.ident = ""
          THEN /\ gpc' = "panic"
               /\ gpanic' = "Unexpected anonymous field in sqlite"
               /\ UNCHANGED <<output, gi>>
          ELSE IF r.panic # ""
          THEN /\ gpc' = "panic"
               /\ gpanic' = r.panic
               /\ UNCHANGED <<output, gi>>
          ELSE /\ output' = Append(output, Fragment("wrapper", FALSE, r.wrapper))
               /\ gi' = gi + 1
               /\ UNCHANGED <<gpc, gpanic>>
    /\ UNCHANGED <<raw, fields, call>>

\* the end of the for loop: output.push_str("\n")
GenEndLoop ==
    /\ gpc = "loop"
    /\ gi > Len(fields)
    /\ output' = Append(output, Fragment("newline", FALSE, NoWrapper))
    /\ gpc' = "shim"
    /\ UNCHANGED <<raw, fields, gi, gpanic, call>>

\* the SQLITE_DETERMINISTIC shim
GenShim ==
    /\ gpc = "shim"
    /\ output' = deterministic_shim(output)
    /\ gpc' = "done"
    /\ UNCHANGED <<raw, fields, gi, gpanic, call>>

\* the wrappers of the output string
Wrappers == SelectSeq(output, LAMBDA f : f.kind = "wrapper")

\* at run time: a generated wrapper is called
CallWrapper ==
    /\ gpc = "done"
    /\ \E i \in 1..Len(Wrappers), api_null \in BOOLEAN, field_null \in BOOLEAN :
         call' = invoke(Wrappers[i].wrapper, api_null, field_null)
    /\ UNCHANGED <<raw, gpc, fields, gi, output, gpanic>>

(***************************************************************************)
(* The build driver                                                        *)
(***************************************************************************)
BundledWarning ==
    Directive("build.rs", "warning",
              "Builds with bundled SQLCipher are not supported. Searching for SQLCipher to link against. This can lead to issues if your version of SQLCipher is not up to date!")

\* mutant: bundled is tested before sqlcipher
main_dispatch_bundled_first(c) ==
    IF c.bundled
    THEN IF c.loadable_extension
         THEN [next |-> "panic", lines |-> <<>>,
               panic |-> "Building a loadable extension bundled is not supported"]
         ELSE [next |-> "build_bundled", lines |-> <<>>, panic |-> ""]
    ELSE IF c.sqlcipher \/ ~c.loadable_extension
    THEN [next |-> "build_linked", lines |-> <<>>, panic |-> ""]
    ELSE [next |-> "build_loadable_extension", lines |-> <<>>, panic |-> ""]

\* mutant: the loadable_extension test of the bundled branch is missing
main_dispatch_no_loadable_check(c) ==
    IF c.sqlcipher
    THEN [next |-> "build_linked",
          lines |-> IF c.bundled THEN <<BundledWarning>> ELSE <<>>,
          panic |-> ""]
    ELSE IF c.bundled
    THEN [next |-> "build_bundled", lines |-> <<>>, panic |-> ""]
    ELSE IF c.loadable_extension
    THEN [next |-> "build_loadable_extension", lines |-> <<>>, panic |-> ""]
    ELSE [next |-> "build_linked", lines |-> <<>>, panic |-> ""]

\* fn main: where it goes, what it prints, whether it panics
main_dispatch(c) ==
    IF c.sqlcipher
    THEN [next |-> "build_linked",
          lines |-> IF c.bundled THEN <<BundledWarning>> ELSE <<>>,
          panic |-> ""]
    ELSE IF c.bundled
    THEN IF c.loadable_extension
         THEN [next |-> "panic", lines |-> <<>>,
               panic |-> "Building a loadable extension bundled is not supported"]
         ELSE [next |-> "build_bundled", lines |-> <<>>, panic |-> ""]
    ELSE IF c.loadable_extension
    THEN [next |-> "build_loadable_extension", lines |-> <<>>, panic |-> ""]
    ELSE [next |-> "build_linked", lines |-> <<>>, panic |-> ""]

\* mutant: without <PREFIX>_INCLUDE_DIR, FromEnvironment falls back on the
\* wrapper header
header_into_string_wrapper_fallback(h, c, e) ==
    IF h.tag = "FromEnvironment"
    THEN IF e.INCLUDE_DIR.set
         THEN [panic |-> "", path |-> e.INCLUDE_DIR.val \o "/" \o header_file(c)]
         ELSE [panic |-> "", path |-> wrapper_file(c)]
    ELSE IF h.tag = "Wrapper"
    THEN [panic |-> "", path |-> wrapper_file(c)]
    ELSE [panic |-> "", path |-> h.path]

\* impl From<HeaderLocation> for String
header_into_string(h, c, e) ==
    IF h.tag = "FromEnvironment"
    THEN IF e.INCLUDE_DIR.set
         THEN [panic |-> "", path |-> e.INCLUDE_DIR.val \o "/" \o header_file(c)]
         ELSE [panic |-> env_prefix(c) \o "_INCLUDE_DIR must be set if "
                         \o env_prefix(c) \o "_LIB_DIR is set",
               path |-> ""]
    ELSE IF h.tag = "Wrapper"
    THEN [panic |-> "", path |-> wrapper_file(c)]
    ELSE [panic |-> "", path |-> h.path]

PREBUILT_BINDGEN_PATHS ==
    {"bindgen-bindings/bindgen_3.6.8", "bindgen-bindings/bindgen_3.6.23",
     "bindgen-bindings/bindgen_3.7.7", "bindgen-bindings/bindgen_3.7.16",
     "bindgen-bindings/bindgen_3.13.0", "bindgen-bindings/bindgen_3.20.0",
     "bindgen-bindings/bindgen_3.26.0"}

prebuilt_bindgen_ext(c) == IF c.loadable_extension THEN "-ext" ELSE ""

\* the panics of the stages of write_to_out_dir that follow the conversion of
\* the header (the translator, the wrapper generator, the formatter), and of
\* fs::copy; "" when they all succeed.  SpecGen and SpecFmt model the stages.
LaterOutcomes == {"", "could not run bindgen on header", "Internal rustfmt error"}
CopyOutcomes == {"", "Could not copy bindings to output directory"}

\* bindings::write_to_out_dir, both cfg variants; last: the newest enabled
\* prebuilt bindings, later: the outcome of the later stages, copy: of fs::copy
write_to_out_dir(h, c, e, last, later, copy) ==
    IF c.buildtime_bindgen
    THEN IF header_into_string(h, c, e).panic # ""
         THEN [panic |-> header_into_string(h, c, e).panic, ran |-> FALSE, artifact |-> ""]
         ELSE [panic |-> later, ran |-> TRUE,
               artifact |-> IF later = ""
                            THEN "bindgen:" \o header_into_string(h, c, e).path ELSE ""]
    ELSE [panic |-> copy, ran |-> TRUE,
          artifact |-> IF copy = ""
                       THEN "copy:" \o last \o prebuilt_bindgen_ext(c) \o ".rs" ELSE ""]

\* the second half of build_linked::main
linked_bindings(h, c, e, last, later, copy) ==
    IF c.bundled /\ ~c.buildtime_bindgen
    THEN [panic |-> copy, ran |-> TRUE,
          artifact |-> IF copy = "" THEN "copy:sqlite3/bindgen_bundled_version.rs" ELSE ""]
    ELSE write_to_out_dir(h, c, e, last, later, copy)

\* the bindings half of build_bundled::main
bundled_bindings(c, e, last, later, copy) ==
    IF c.buildtime_bindgen
    THEN write_to_out_dir(FromPath("sqlite3/" \o header_file(c)), c, e, last, later, copy)
    ELSE [panic |-> copy, ran |-> TRUE,
          artifact |-> IF copy = "" THEN "copy:sqlite3/bindgen_bundled_version.rs" ELSE ""]

InitDrv ==
    /\ cfg \in {c \in Features : c.vcpkg_msvc => c.windows}
    /\ env \in Environments
    /\ pc = "main"
    /\ out = <<>>
    /\ header = NoHeader
    /\ probes = NoProbes
    /\ work = {}
    /\ artifact = ""
    /\ panicMsg = ""

Finish(msg) ==
    /\ panicMsg' = msg
    /\ pc' = IF msg = "" THEN "done" ELSE "panic"

Main ==
    /\ pc = "main"
    /\ pc' = main_dispatch(cfg).next
    /\ out' = out \o main_dispatch(cfg).lines
    /\ panicMsg' = main_dispatch(cfg).panic
    /\ UNCHANGED <<cfg, env, header, probes, work, artifact>>

\* build_linked::main, the call of find_sqlite
BuildLinkedFind ==
    /\ pc = "build_linked"
    /\ \E ps \in {ProbeErr, ProbeOk(<<>>)}, pv \in ProbeAnswers, pg \in ProbeAnswers :
         /\ header' = linked_find_sqlite(cfg, env, ps, pv, pg).header
         /\ out' = out \o linked_find_sqlite(cfg, env, ps, pv, pg).lines
         /\ probes' = linked_find_sqlite(cfg, env, ps, pv, pg).probes
    /\ work' = work \cup {"resolver"}
    /\ pc' = "linked_bindings"
    /\ UNCHANGED <<cfg, env, artifact, panicMsg>>

\* build_linked::main, after find_sqlite
BuildLinkedBindings ==
    /\ pc = "linked_bindings"
    /\ \E last \in PREBUILT_BINDGEN_PATHS, later \in LaterOutcomes, copy \in CopyOutcomes :
         LET r == linked_bindings(header, cfg, env, last, later, copy) IN
         /\ artifact' = r.artifact
         /\ work' = IF r.ran THEN work \cup {"bindings"} ELSE work
         /\ Finish(r.panic)
    /\ UNCHANGED <<cfg, env, out, header, probes>>

\* build_loadable_extension::main, the call of find_sqlite
BuildLoadableFind ==
    /\ pc = "build_loadable_extension"
    /\ \E pv \in ProbeAnswers, pg \in ProbeAnswers :
         /\ header' = loadable_find_sqlite(cfg, env, pv, pg).header
         /\ out' = out \o loadable_find_sqlite(cfg, env, pv, pg).lines
         /\ probes' = loadable_find_sqlite(cfg, env, pv, pg).probes
    /\ work' = work \cup {"resolver"}
    /\ pc' = "loadable_bindings"
    /\ UNCHANGED <<cfg, env, artifact, panicMsg>>

\* build_loadable_extension::main, after find_sqlite
BuildLoadableBindings ==
    /\ pc = "loadable_bindings"
    /\ \E last \in PREBUILT_BINDGEN_PATHS, later \in LaterOutcomes, copy \in CopyOutcomes :
         LET r == write_to_out_dir(header, cfg, env, last, later, copy) IN
         /\ artifact' = r.artifact
         /\ work' = IF r.ran THEN work \cup {"bindings"} ELSE work
         /\ Finish(r.panic)
    /\ UNCHANGED <<cfg, env, out, header, probes>>

\* build_bundled::main; cc: the outcome of cfg.compile
BuildBundled ==
    /\ pc = "build_bundled"
    /\ IF cfg.sqlcipher
       THEN /\ Finish("Builds with bundled SQLCipher are not supported")
            /\ UNCHANGED <<artifact, work, out>>
       ELSE \E last \in PREBUILT_BINDGEN_PATHS, later \in LaterOutcomes,
               copy \in CopyOutcomes, cc \in {"", "cc: compilation failed"} :
              LET r == bundled_bindings(cfg, env, last, later, copy) IN
              /\ artifact' = r.artifact
              /\ IF r.panic # ""
                 THEN /\ Finish(r.panic)
                      /\ work' = IF r.ran THEN work \cup {"bindings"} ELSE work
                      /\ out' = out
                 ELSE /\ Finish(cc)
                      /\ work' = work \cup {"bindings", "compiler"}
                      /\ out' = IF cc = ""
                                THEN Append(out, Directive("build.rs", "lib_dir", "OUT_DIR"))
                                ELSE out
    /\ UNCHANGED <<cfg, env, header, probes>>

Init == InitDrv /\ GenIdle /\ FmtIdle

Next ==
    \/ Main /\ UNCHANGED <<genVars, fmtVars>>
    \/ BuildLinkedFind /\ UNCHANGED <<genVars, fmtVars>>
    \/ BuildLinkedBindings /\ UNCHANGED <<genVars, fmtVars>>
    \/ BuildLoadableFind /\ UNCHANGED <<genVars, fmtVars>>
    \/ BuildLoadableBindings /\ UNCHANGED <<genVars, fmtVars>>
    \/ BuildBundled /\ UNCHANGED <<genVars, fmtVars>>

Spec == Init /\ [][Next]_vars

NextGen ==
    \/ GenStart /\ UNCHANGED <<drvVars, fmtVars>>
    \/ GenField /\ UNCHANGED <<drvVars, fmtVars>>
    \/ GenEndLoop /\ UNCHANGED <<drvVars, fmtVars>>
    \/ GenShim /\ UNCHANGED <<drvVars, fmtVars>>
    \/ CallWrapper /\ UNCHANGED <<drvVars, fmtVars>>

SpecGen == InitGen /\ [][NextGen]_vars

NextFmt ==
    \/ FmtOpen /\ UNCHANGED <<drvVars, genVars>>
    \/ FmtSpawn /\ UNCHANGED <<drvVars, genVars>>
    \/ WriterWrite /\ UNCHANGED <<drvVars, genVars>>
    \/ WriterFinish /\ UNCHANGED <<drvVars, genVars>>
    \/ ChildRead /\ UNCHANGED <<drvVars, genVars>>
    \/ ChildEof /\ UNCHANGED <<drvVars, genVars>>
    \/ ChildEmit /\ UNCHANGED <<drvVars, genVars>>
    \/ ChildExit /\ UNCHANGED <<drvVars, genVars>>
    \/ FmtCopyChunk /\ UNCHANGED <<drvVars, genVars>>
    \/ FmtCopyEof /\ UNCHANGED <<drvVars, genVars>>
    \/ FmtWait /\ UNCHANGED <<drvVars, genVars>>
    \/ FmtJoin /\ UNCHANGED <<drvVars, genVars>>
    \/ FmtMatch /\ UNCHANGED <<drvVars, genVars>>

SpecFmt == InitFmt /\ [][NextFmt]_vars

\* the operating system schedules the calling thread, the writer thread and
\* the rustfmt process whenever they can run
FairSpecFmt ==
    /\ InitFmt /\ [][NextFmt]_vars
    /\ WF_vars(MainThread /\ UNCHANGED <<drvVars, genVars>>)
    /\ WF_vars(WriterThread /\ UNCHANGED <<drvVars, genVars>>)
    /\ WF_vars(Rustfmt /\ UNCHANGED <<drvVars, genVars>>)

(***************************************************************************)
(* Properties of the build driver and the resolvers (checked under Spec)   *)
(***************************************************************************)
Resolved == "resolver" \in work

\* the configuration in which main runs build_loadable_extension::main
LoadableMode == cfg.loadable_extension /\ ~cfg.sqlcipher /\ ~cfg.bundled

\* no prober that was asked found the library, and the last one was asked
AllProbersFailed == ~probes.scoped.ok /\ ~probes.vcpkg.ok
                    /\ probes.general.asked /\ ~probes.general.ok

IsLinkDirective(d) == d.kind \in {"rustc-link-lib", "rustc-link-search"}

LinkDirectives == SelectSeq(out, IsLinkDirective)

ConfigErrors == {"Building a loadable extension bundled is not supported",
                 "Builds with bundled SQLCipher are not supported"}

\* C2 as stated: in loadable-extension mode, with LIB_DIR unset and every
\* prober failing, the resolver prints a dynamic link-lib directive for
\* sqlite3 and returns HeaderLocation::Wrapper.
C2_LoadableFallbackLinks ==
    (LoadableMode /\ Resolved /\ ~env.LIB_DIR.set /\ AllProbersFailed)
        => /\ header = Wrapper
           /\ \E i \in 1..Len(out) :
                out[i].kind = "rustc-link-lib" /\ out[i].value = "dylib=sqlite3"

\* C2 amended: in loadable-extension mode, with LIB_DIR unset and every
\* prober failing, the resolver returns HeaderLocation::Wrapper and prints
\* no link directive at all (only the rerun-if-env-changed lines).
C2_LoadableFallbackSilent ==
    (LoadableMode /\ Resolved /\ ~env.LIB_DIR.set /\ AllProbersFailed)
        => /\ header = Wrapper
           /\ LinkDirectives = <<>>
           /\ out = RerunLines(cfg)

C2_Witness ==
    /\ LoadableMode /\ pc = "loadable_bindings" /\ ~env.LIB_DIR.set
    /\ AllProbersFailed /\ header = Wrapper

\* C3 as stated: with bundled and sqlcipher both set, the build ends in a
\* configuration panic before the resolver, the compiler or the bindings
\* step has run.
C3_BundledCipherFailsFast ==
    (cfg.bundled /\ cfg.sqlcipher /\ pc # "main")
        => pc = "panic" /\ panicMsg \in ConfigErrors /\ work = {}

\* C3 amended: with bundled and sqlcipher both set, main does not fail: it
\* prints the warning that bundled SQLCipher is not supported and runs the
\* linked build (resolver, then bindings); the bundled compiler never runs
\* and no configuration panic is raised.
C3_BundledCipherWarnsAndLinks ==
    (cfg.bundled /\ cfg.sqlcipher /\ pc # "main")
        => /\ Len(out) >= 1 /\ out[1] = BundledWarning
           /\ pc \in {"build_linked", "linked_bindings", "done", "panic"}
           /\ panicMsg \notin ConfigErrors
           /\ "compiler" \notin work
           /\ (pc \in {"linked_bindings", "done"} => Resolved)

C3_Witness ==
    /\ cfg.bundled /\ cfg.sqlcipher /\ pc = "done"
    /\ Resolved /\ "bindings" \in work /\ out[1] = BundledWarning

\* C4 as stated: with bundled and loadable_extension both set, whatever the
\* other flags (sqlcipher included), the build ends in a configuration panic
\* before any resolution, compilation or binding generation.
C4_BundledLoadableAlwaysAborts ==
    (cfg.bundled /\ cfg.loadable_extension /\ pc # "main")
        => pc = "panic" /\ panicMsg \in ConfigErrors /\ work = {}

\* C4 amended: with bundled and loadable_extension set and sqlcipher not
\* set, whatever the other flags, main panics with the configuration error
\* before any resolution, compilation or binding generation; with sqlcipher
\* also set main prints the bundled-SQLCipher warning and runs the linked
\* build instead.
C4_BundledLoadableAbortsUnlessCipher ==
    (cfg.bundled /\ cfg.loadable_extension /\ pc # "main")
        => IF ~cfg.sqlcipher
           THEN /\ pc = "panic"
                /\ panicMsg = "Building a loadable extension bundled is not supported"
                /\ work = {} /\ out = <<>> /\ artifact = "" /\ header = NoHeader
           ELSE /\ out[1] = BundledWarning
                /\ panicMsg \notin ConfigErrors
                /\ pc \in {"build_linked", "linked_bindings", "done", "panic"}

C4_Witness ==
    /\ cfg.bundled /\ cfg.loadable_extension /\ ~cfg.sqlcipher
    /\ cfg.buildtime_bindgen /\ pc = "panic"

\* C9: if <PREFIX>_LIB_DIR is set, find_sqlite returns FromEnvironment
\* whether the pkg-config probe scoped to that directory succeeds or fails,
\* and asks neither vcpkg nor the unscoped pkg-config probe; in the linked
\* and in the loadable-extension resolver.
C9_LibDirGivesFromEnvironment ==
    (Resolved /\ env.LIB_DIR.set)
        => /\ header = FromEnvironment
           /\ ~probes.vcpkg.asked
           /\ ~probes.general.asked

C9_Witness ==
    /\ pc = "linked_bindings" /\ env.LIB_DIR.set
    /\ probes.scoped.asked /\ ~probes.scoped.ok
    /\ header = FromEnvironment

\* C10 as stated: whichever resolver runs, if LIB_DIR is not set and no
\* prober succeeds, resolution returns Wrapper and prints exactly one link
\* directive, a link-lib for link_lib, and no link-search.
C10_FallbackOneBareLink ==
    (Resolved /\ ~env.LIB_DIR.set /\ AllProbersFailed)
        => /\ header = Wrapper
           /\ Len(LinkDirectives) = 1
           /\ LinkDirectives[1].kind = "rustc-link-lib"
           /\ LinkDirectives[1].value \in {"dylib=" \o link_lib(cfg), "static=" \o link_lib(cfg)}

\* C10 amended: in the linked resolver, if LIB_DIR is not set and no prober
\* succeeds, resolution returns Wrapper and prints exactly one link
\* directive, a link-lib for link_lib (sqlcipher with the sqlcipher feature,
\* sqlite3 otherwise) qualified by the link mode, and no link-search; the
\* loadable-extension resolver returns Wrapper too and prints no link
\* directive.
C10_LinkedFallbackOneBareLink ==
    (Resolved /\ ~env.LIB_DIR.set /\ AllProbersFailed)
        => /\ header = Wrapper
           /\ IF LoadableMode
              THEN LinkDirectives = <<>>
              ELSE LinkDirectives =
                     <<Directive("build.rs", "rustc-link-lib",
                                 find_link_mode(cfg, env) \o "=" \o link_lib(cfg))>>

C10_Witness ==
    /\ ~LoadableMode /\ cfg.sqlcipher /\ pc = "linked_bindings"
    /\ ~env.LIB_DIR.set /\ AllProbersFailed
    /\ LinkDirectives = <<Directive("build.rs", "rustc-link-lib", "dylib=sqlcipher")>>

\* the link directives printed by the build script itself, not by a prober
BareLinkDirectives == SelectSeq(out, LAMBDA d : d.by = "build.rs" /\ IsLinkDirective(d))

\* C11: if <PREFIX>_LIB_DIR is not set, vcpkg does not find the library and
\* the unscoped pkg-config probe succeeds and reports include paths, then
\* find_sqlite (the linked and the loadable-extension one) returns FromPath
\* of the include path popped from the report (the last one), a separator
\* and the header file name, sqlite3ext.h with the loadable_extension
\* feature and sqlite3.h without it, and the build script prints no link
\* directive of its own.
C11_GeneralProbeGivesFromPath ==
    (Resolved /\ ~env.LIB_DIR.set /\ probes.general.asked /\ probes.general.ok
        /\ Len(probes.general.include_paths) > 0)
        => LET paths == probes.general.include_paths IN
           /\ header.tag = "FromPath"
           /\ header.path = paths[Len(paths)] \o "/"
                             \o (IF cfg.loadable_extension THEN "sqlite3ext.h" ELSE "sqlite3.h")
           /\ BareLinkDirectives = <<>>
           /\ ~(probes.vcpkg.ok /\ Len(probes.vcpkg.include_paths) > 0)

C11_Witness ==
    /\ LoadableMode /\ pc = "loadable_bindings" /\ ~env.LIB_DIR.set
    /\ cfg.vcpkg_msvc /\ probes.vcpkg.asked /\ ~probes.vcpkg.ok
    /\ probes.general.ok
    /\ probes.general.include_paths = <<"/usr/include", "/opt/include">>
    /\ header = FromPath("/opt/include/sqlite3ext.h")

\* the values <PREFIX>_STATIC is drawn from
StaticValues == {e.STATIC : e \in Environments}

\* what the resolver that ran would have done with <PREFIX>_STATIC at s and
\* the same answers of the probers
ResolvedWithStatic(s) ==
    IF LoadableMode
    THEN loadable_find_sqlite(cfg, [env EXCEPT !.STATIC = s], probes.vcpkg, probes.general)
    ELSE linked_find_sqlite(cfg, [env EXCEPT !.STATIC = s], probes.scoped, probes.vcpkg,
                            probes.general)

\* C14: every link-lib directive the build script prints itself (in the
\* LIB_DIR branch after the scoped pkg-config probe failed, and in the
\* fallback when nothing was found) is "static=<lib>" if <PREFIX>_STATIC is
\* set to a value other than "0", the empty string included, and
\* "dylib=<lib>" if it is unset or "0"; the linked resolver prints one in
\* both of these cases; and the value of <PREFIX>_STATIC changes neither the
\* HeaderLocation returned nor which probers are asked.
C14_StaticQualifier ==
    Resolved =>
        /\ \A i \in 1..Len(BareLinkDirectives) :
             BareLinkDirectives[i].kind = "rustc-link-lib"
               => BareLinkDirectives[i].value =
                    (IF env.STATIC.set /\ env.STATIC.val # "0" THEN "static" ELSE "dylib")
                    \o "=" \o link_lib(cfg)
        /\ (~LoadableMode /\ (IF env.LIB_DIR.set THEN ~probes.scoped.ok ELSE AllProbersFailed))
             => \E i \in 1..Len(BareLinkDirectives) :
                  BareLinkDirectives[i].kind = "rustc-link-lib"
        /\ \A s \in StaticValues :
             /\ ResolvedWithStatic(s).header = header
             /\ ResolvedWithStatic(s).probes = probes

C14_Witness ==
    /\ pc = "linked_bindings" /\ env.LIB_DIR.set /\ ~probes.scoped.ok
    /\ env.STATIC = SetTo("")
    /\ BareLinkDirectives =
         <<Directive("build.rs", "rustc-link-lib", "static=sqlite3"),
           Directive("build.rs", "rustc-link-search", "/opt/lib")>>

\* the build is over, after a resolver ran
BuildOver == Resolved /\ pc \in {"done", "panic"}

IncludeDirMissing ==
    {"SQLITE3_INCLUDE_DIR must be set if SQLITE3_LIB_DIR is set",
     "SQLCIPHER_INCLUDE_DIR must be set if SQLCIPHER_LIB_DIR is set"}

\* C15: find_sqlite itself never panics.  With buildtime_bindgen and
\* <PREFIX>_LIB_DIR set: if <PREFIX>_INCLUDE_DIR is not set the build panics
\* at the conversion of the header location to a path ("<PREFIX>_INCLUDE_DIR
\* must be set if <PREFIX>_LIB_DIR is set"), before bindgen runs and before
\* anything is written at out_path; if it is set, the header bindgen gets is
\* that directory, "/" and the header file name.  Without buildtime_bindgen
\* the header location is not converted and a missing <PREFIX>_INCLUDE_DIR
\* stops nothing: the build fails only if the copy of the prebuilt bindings
\* does.
C15_FromEnvironmentNeedsIncludeDir ==
    /\ (pc \in {"linked_bindings", "loadable_bindings"}
          => Resolved /\ panicMsg = "" /\ header # NoHeader)
    /\ (pc = "build_linked" => ENABLED BuildLinkedFind)
    /\ (pc = "build_loadable_extension" => ENABLED BuildLoadableFind)
    /\ (BuildOver /\ cfg.buildtime_bindgen /\ env.LIB_DIR.set /\ ~env.INCLUDE_DIR.set)
          => /\ header = FromEnvironment
             /\ pc = "panic"
             /\ panicMsg = (IF cfg.sqlcipher THEN "SQLCIPHER" ELSE "SQLITE3")
                            \o "_INCLUDE_DIR must be set if "
                            \o (IF cfg.sqlcipher THEN "SQLCIPHER" ELSE "SQLITE3")
                            \o "_LIB_DIR is set"
             /\ "bindings" \notin work
             /\ artifact = ""
    /\ (BuildOver /\ cfg.buildtime_bindgen /\ env.LIB_DIR.set /\ env.INCLUDE_DIR.set)
          => /\ header = FromEnvironment
             /\ panicMsg \notin IncludeDirMissing
             /\ "bindings" \in work
             /\ (pc = "done" =>
                   artifact = "bindgen:" \o env.INCLUDE_DIR.val \o "/"
                              \o (IF cfg.loadable_extension THEN "sqlite3ext.h"
                                                            ELSE "sqlite3.h"))
    /\ (BuildOver /\ ~cfg.buildtime_bindgen)
          => /\ panicMsg \in CopyOutcomes
             /\ "bindings" \in work
             /\ (pc = "done" => artifact # "")

C15_Witness ==
    /\ BuildOver /\ cfg.buildtime_bindgen /\ cfg.sqlcipher /\ cfg.loadable_extension
    /\ env.LIB_DIR.set /\ ~env.INCLUDE_DIR.set
    /\ header = FromEnvironment /\ pc = "panic"
    /\ panicMsg = "SQLCIPHER_INCLUDE_DIR must be set if SQLCIPHER_LIB_DIR is set"

(***************************************************************************)
(* Properties of the wrapper generator (checked under SpecGen)             *)
(***************************************************************************)
\* the field can be wrapped: it is named and its type is Option<fn(..)>
Wrappable(f) == f.ident # "" /\ f.ty.shape = "Option<BareFn>"

\* C5 as stated: a generated wrapper called while sqlite3_api is null panics
\* without dereferencing the pointer, with a message that names the
\* wrapper's field of the dispatch table.
C5_NullApiNamesField ==
    (call.made /\ call.api_null)
        => /\ call.result = "panic"
           /\ ~call.deref
           /\ call.wrapper.field \in Range(call.msg)

\* C5 amended: a generated wrapper called while sqlite3_api is null panics
\* without dereferencing the pointer, with the fixed message "sqlite3_api is
\* null", which does not name the field; the message that names the field is
\* that of the panic raised when sqlite3_api is not null and the wrapper's
\* field of the table is null.
C5_NullApiFixedMessage ==
    /\ (call.made /\ call.api_null)
         => /\ call.result = "panic"
            /\ ~call.deref
            /\ call.msg = <<"sqlite3_api is null">>
            /\ call.wrapper.field \notin Range(call.msg)
    /\ (call.made /\ ~call.api_null /\ call.field_null)
         => /\ call.result = "panic"
            /\ call.wrapper.field \in Range(call.msg)

C5_Witness ==
    /\ call.made /\ call.api_null /\ call.result = "panic"
    /\ call.wrapper.field = "close_v2"

\* C7: for a struct of N named function-pointer fields the generator pushes
\* exactly N wrappers, right after the sqlite3_api declaration, the i-th one
\* named "sqlite3_" followed by the i-th field's name and dispatching through
\* that field, none skipped and none twice; it stops with a panic only at a
\* field that is anonymous or is not a function pointer.
C7_OneWrapperPerField ==
    (raw.loadable_extension /\ raw.has_struct /\ gpc # "start")
        => LET n == IF gpc = "done" \/ gpc = "shim" THEN Len(fields) ELSE gi - 1 IN
           /\ Len(Wrappers) = n
           /\ \A i \in 1..n :
                /\ output[i + 2].kind = "wrapper"
                /\ output[i + 2].wrapper.name = "sqlite3_" \o fields[i].ident
                /\ output[i + 2].wrapper.field = fields[i].ident
           /\ \A i, j \in 1..n :
                i # j => output[i + 2].wrapper.name # output[j + 2].wrapper.name
           /\ (gpc = "panic" => gi <= Len(fields) /\ ~Wrappable(fields[gi]))
           /\ (gpc = "loop" /\ gi <= Len(fields) /\ Wrappable(fields[gi]) => ENABLED GenField)

C7_Witness ==
    /\ gpc = "done" /\ Len(fields) >= 2 /\ Len(Wrappers) = Len(fields)
    /\ Wrappers[1].wrapper.name = "sqlite3_mprintf"
    /\ Wrappers[2].wrapper.name = "sqlite3_close_v2"

\* the inputs a wrapper adds to the fixed ones of its field
Appended(i) ==
    SubSeq(Wrappers[i].wrapper.inputs, Len(fields[i].ty.inputs) + 1,
           Len(Wrappers[i].wrapper.inputs))

LastFixedType(i) == fields[i].ty.inputs[Len(fields[i].ty.inputs)].ty

\* C8: the wrapper of a variadic field keeps the field's fixed parameters in
\* order and appends, in place of the variadic tail, two parameters for
\* db_config (vararg1, of the type of the last fixed parameter, and vararg2,
\* a &mut i32) and one parameter otherwise (vararg1, of the type of the last
\* fixed parameter); the wrapper of a non-variadic field appends none; the
\* call passes every parameter, fixed ones first, in the order of the
\* signature.
C8_VariadicTail ==
    (raw.loadable_extension /\ raw.has_struct /\ gpc \in {"loop", "shim", "done"})
        => /\ \A i \in 1..Len(Wrappers) :
                LET w == Wrappers[i].wrapper
                    fixed == fields[i].ty.inputs
                IN /\ Len(w.inputs) >= Len(fixed)
                   /\ SubSeq(w.inputs, 1, Len(fixed)) = fixed
                   /\ Appended(i) =
                        IF ~fields[i].ty.variadic THEN <<>>
                        ELSE IF fields[i].ident = "db_config"
                        THEN <<Arg("vararg1", LastFixedType(i)), Arg("vararg2", "&mut i32")>>
                        ELSE <<Arg("vararg1", LastFixedType(i))>>
                   /\ Len(w.args) = Len(w.inputs)
                   /\ \A k \in 1..Len(w.inputs) : w.args[k] = w.inputs[k].name
           /\ (call.made /\ call.result = "called" => call.passed = call.wrapper.args)

C8_Witness ==
    /\ gpc = "done" /\ Len(Wrappers) = 2
    /\ fields[1].ident = "db_config" /\ fields[1].ty.variadic
    /\ Len(Appended(1)) = 2
    /\ fields[2].ident = "mprintf" /\ fields[2].ty.variadic
    /\ Len(Appended(2)) = 1
    /\ call.made /\ call.result = "called" /\ call.wrapper.field = "db_config"
    /\ call.passed = <<"arg1", "arg2", "vararg1", "vararg2">>

\* the fragments of the output string that define SQLITE_DETERMINISTIC
DeterministicDefs == SelectSeq(output, LAMBDA f : f.const.name = "SQLITE_DETERMINISTIC")

\* C13: the output string that goes to rustfmt defines SQLITE_DETERMINISTIC
\* exactly once.  If bindgen's output (with the sqlite3_api declaration and
\* the wrappers, which never define it) does not hold the definition, the
\* last fragment of the string is "pub const SQLITE_DETERMINISTIC: i32 =
\* 2048;", pushed after bindgen's output, the sqlite3_api declaration and all
\* the wrappers; if it does, nothing is pushed after the wrappers.
C13_DeterministicDefinedOnce ==
    /\ gpc = "done" =>
         /\ Len(DeterministicDefs) = 1
         /\ DeterministicDefs[1].const.ty = "i32"
         /\ DeterministicDefs[1].const.value = 2048
         /\ output[1].kind = "raw"
         /\ IF raw.has_deterministic
            THEN /\ output[1].const.name = "SQLITE_DETERMINISTIC"
                 /\ \A i \in 2..Len(output) :
                      output[i].kind \in {"sqlite3_api", "wrapper", "newline"}
                 /\ output[Len(output)].kind \in {"raw", "newline"}
            ELSE /\ output[Len(output)].kind = "SQLITE_DETERMINISTIC"
                 /\ output[Len(output)].const = Const("SQLITE_DETERMINISTIC", "i32", 2048)
                 /\ \A i \in 1..(Len(output) - 1) :
                      output[i].kind \in {"raw", "sqlite3_api", "wrapper", "newline"}
         /\ (raw.loadable_extension =>
                /\ Len(Wrappers) = Len(fields)
                /\ output[2].kind = "sqlite3_api"
                /\ \A i \in 1..Len(fields) : output[i + 2].kind = "wrapper")
    /\ (gpc = "shim" => ENABLED GenShim)

C13_Witness ==
    /\ gpc = "done" /\ ~raw.has_deterministic /\ raw.loadable_extension
    /\ Len(Wrappers) = 2 /\ Len(output) = 6
    /\ output[6].const = Const("SQLITE_DETERMINISTIC", "i32", 2048)

(***************************************************************************)
(* Properties of the rustfmt hand-off (checked under SpecFmt, the          *)
(* progress property under FairSpecFmt)                                    *)
(***************************************************************************)
HandOffStarted == child.state # "none"

\* the calling thread is at, or past, the inspection of the exit status
AtInspection ==
    \/ fpc \in {"match", "done"}
    \/ fpc = "panic" /\ fpanic \in {status_message(c) : c \in ExitCodes}

\* C1: when rustfmt exits with status 2 (parse error) the build panics and
\* the content at out_path is what it was before the build: nothing, or the
\* bindings of the previous successful build, with nothing of the failed run
\* in it.  (The creation of an empty file where there was none is not
\* counted as a change.)
C1_ParseErrorLeavesFileUntouched ==
    (fpc = "panic" /\ fpanic = "rustfmt parsing error")
        => file.content = prior.content

\* C6: once rustfmt and the writer thread are spawned the calling thread
\* always reaches the inspection of the exit status, whatever the size of the
\* text and the capacities of the pipes, and is there only after rustfmt has
\* exited and been waited for and the writer thread has finished, closed
\* rustfmt's input and been joined.
C6_HandOffNeverDeadlocks ==
    /\ [](HandOffStarted => <>AtInspection)
    /\ [](AtInspection => /\ child.state = "exited" /\ hist.waited
                          /\ writer = "done" /\ hist.joined /\ ~stdinOpen
                          /\ stdoutPipe = <<>>)
    /\ [](writer = "done" => ~stdinOpen)

C6_Witness ==
    /\ fpc = "match" /\ hist.both_full /\ text0 > capIn
    /\ Len(file.content) > capOut /\ status = "0"

\* the calling thread is past the inspection of the exit status
Inspected == hist.waited /\ hist.joined /\ fpc \in {"done", "panic"}

\* C12: once rustfmt has run, write_to_out_dir returns if and only if
\* rustfmt exited with code 0; with exit code 2 it panics with "rustfmt
\* parsing error", with exit code 3 with "rustfmt could not format some
\* lines.", and with any other exit code, or a termination without an exit
\* code, with "Internal rustfmt error"; the three messages differ from one
\* another, and the inspection of the status never blocks.
C12_ExitStatusClassified ==
    /\ Inspected =>
         /\ status = child.code
         /\ (fpc = "done") = (status = "0")
         /\ (fpc = "done" => fpanic = "")
         /\ (status = "2" => fpc = "panic" /\ fpanic = "rustfmt parsing error")
         /\ (status = "3" => fpc = "panic" /\ fpanic = "rustfmt could not format some lines.")
         /\ (status \notin {"0", "2", "3"}
               => fpc = "panic" /\ fpanic = "Internal rustfmt error")
    /\ (fpc = "done" => Inspected)
    /\ (fpc = "match" => ENABLED FmtMatch)
    /\ Cardinality({"rustfmt parsing error", "rustfmt could not format some lines.",
                     "Internal rustfmt error"}) = 3

C12_Witness ==
    /\ Inspected /\ fpc = "panic" /\ child.code = "3"
    /\ fpanic = "rustfmt could not format some lines."
    /\ file.exists

====
